---------------------------- MODULE Spec2Model ----------------------------
(***************************************************************************)
(* A model of the card canvas application: the persistent store wrapper    *)
(* (src/hooks/created-persisted-store.ts), the App with pan and zoom       *)
(* (part_000) and the earlier App without them (part_001).                 *)
(*                                                                         *)
(* Numbers.  The program computes with JavaScript numbers.  The model      *)
(* computes with exact rationals [n, d] in lowest terms, so the arithmetic *)
(* identities checked here are those of the formulas in the code, without  *)
(* IEEE-754 rounding.                                                      *)
(*                                                                         *)
(* Strings in storage.  A stored string is a sequence of JSON tokens;      *)
(* JSON.stringify produces the tokens and JSON.parse is a recursive        *)
(* descent parser over them which fails on a malformed sequence.           *)
(***************************************************************************)
EXTENDS Integers, Sequences, FiniteSets, TLC

(***************************************************************************)
(* Bounds of the model.                                                    *)
(***************************************************************************)
MaxSteps == 5
MaxCards == 2

\* clientX / clientY of the mouse and wheel events that are tried.
Points == { <<0, 0>>, <<3, 1>>, <<1, 2>> }
\* deltaY of the wheel events that are tried.
WheelDeltas == { -450, 0, 100 }
\* values typed into a card's textarea.
Texts == { "", "hi" }

(***************************************************************************)
(* Exact rational arithmetic.                                              *)
(***************************************************************************)
Abs(a) == IF a < 0 THEN -a ELSE a

RECURSIVE Gcd(_, _)
Gcd(a, b) == IF b = 0 THEN a ELSE Gcd(b, a % b)

Rat(n, d) ==
    LET s == IF d < 0 THEN -1 ELSE 1
        g == Gcd(Abs(n), Abs(d))
    IN  [n |-> (s * n) \div g, d |-> (s * d) \div g]

Int2Rat(i) == [n |-> i, d |-> 1]
RAdd(a, b) == Rat(a.n * b.d + b.n * a.d, a.d * b.d)
RSub(a, b) == Rat(a.n * b.d - b.n * a.d, a.d * b.d)
RMul(a, b) == Rat(a.n * b.n, a.d * b.d)
\* division by a nonzero number
RDiv(a, b) == Rat(a.n * b.d, a.d * b.n)
RLess(a, b) == a.n * b.d < b.n * a.d
RLeq(a, b) == a.n * b.d <= b.n * a.d

(***************************************************************************)
(* Program constants (part_000 lines 23-25).                               *)
(***************************************************************************)
MAX_SCALE == Int2Rat(5)
MIN_SCALE == Rat(1, 4)
SCALING_FACTOR == Rat(1, 100)

\* utils: clamp(value, min, max)
clamp(v, lo, hi) == IF RLess(v, lo) THEN lo ELSE IF RLess(hi, v) THEN hi ELSE v

\* utils: generateId(); a fresh id, distinct from the ids of the cards so far
generateId(cs) == ToString(Len(cs) + 1)


(***************************************************************************)
(* JSON text as a sequence of tokens.                                      *)
(***************************************************************************)
Punct(c) == [k |-> c]
StrTok(s) == [k |-> "str", s |-> s]
NumTok(r) == [k |-> "num", r |-> r]

\* JSON.stringify of a number, a string, {x, y}, a card, the card list and
\* the canvas position; keys in the order the object literals create them.
StringifyNumber(r) == << NumTok(r) >>
StringifyString(s) == << StrTok(s) >>
Member(key, valueTokens) == << StrTok(key), Punct(":") >> \o valueTokens

StringifyXY(p) ==
    << Punct("{") >> \o Member("x", StringifyNumber(p.x)) \o << Punct(",") >>
                  \o Member("y", StringifyNumber(p.y)) \o << Punct("}") >>

StringifyCard(c) ==
    << Punct("{") >> \o Member("id", StringifyString(c.id)) \o << Punct(",") >>
                  \o Member("text", StringifyString(c.text)) \o << Punct(",") >>
                  \o Member("position", StringifyXY(c.position)) \o << Punct("}") >>

RECURSIVE StringifyElements(_)
StringifyElements(cs) ==
    IF cs = << >> THEN << >>
    ELSE IF Len(cs) = 1 THEN StringifyCard(cs[1])
    ELSE StringifyCard(Head(cs)) \o << Punct(",") >> \o StringifyElements(Tail(cs))

StringifyCards(cs) == << Punct("[") >> \o StringifyElements(cs) \o << Punct("]") >>

StringifyCanvas(p) ==
    << Punct("{") >> \o Member("x", StringifyNumber(p.x)) \o << Punct(",") >>
                  \o Member("y", StringifyNumber(p.y)) \o << Punct(",") >>
                  \o Member("scale", StringifyNumber(p.scale)) \o << Punct("}") >>

\* JSON.parse: [ok, kind, val, rest]; kind is the JavaScript type of val.
ParseFail == [ok |-> FALSE]
ParseOk(kind, val, rest) == [ok |-> TRUE, kind |-> kind, val |-> val, rest |-> rest]

RECURSIVE ParseValue(_)
RECURSIVE ParseElements(_, _)
RECURSIVE ParseMembers(_, _)

ParseValue(ts) ==
    IF ts = << >> THEN ParseFail
    ELSE LET t == Head(ts) IN
         CASE t.k = "str"   -> ParseOk("string", t.s, Tail(ts))
           [] t.k = "num"   -> ParseOk("number", t.r, Tail(ts))
           [] t.k = "null"  -> ParseOk("null", FALSE, Tail(ts))
           [] t.k = "true"  -> ParseOk("boolean", TRUE, Tail(ts))
           [] t.k = "false" -> ParseOk("boolean", FALSE, Tail(ts))
           [] t.k = "["     ->
                IF Len(ts) > 1 /\ ts[2].k = "]"
                THEN ParseOk("array", << >>, Tail(Tail(ts)))
                ELSE ParseElements(Tail(ts), << >>)
           [] t.k = "{"     ->
                IF Len(ts) > 1 /\ ts[2].k = "}"
                THEN ParseOk("object", << >>, Tail(Tail(ts)))
                ELSE ParseMembers(Tail(ts), << >>)
           [] OTHER         -> ParseFail

ParseElements(ts, acc) ==
    LET r == ParseValue(ts) IN
    IF ~r.ok \/ r.rest = << >> THEN ParseFail
    ELSE LET sep == Head(r.rest).k IN
         IF sep = "," THEN ParseElements(Tail(r.rest), Append(acc, r.val))
         ELSE IF sep = "]" THEN ParseOk("array", Append(acc, r.val), Tail(r.rest))
         ELSE ParseFail

ParseMembers(ts, acc) ==
    IF Len(ts) < 3 \/ ts[1].k # "str" \/ ts[2].k # ":" THEN ParseFail
    ELSE LET r == ParseValue(SubSeq(ts, 3, Len(ts))) IN
         IF ~r.ok \/ r.rest = << >> THEN ParseFail
         ELSE LET sep  == Head(r.rest).k
                  acc2 == (ts[1].s :> r.val) @@ acc
              IN  IF sep = "," THEN ParseMembers(Tail(r.rest), acc2)
                  ELSE IF sep = "}" THEN ParseOk("object", acc2, Tail(r.rest))
                  ELSE ParseFail

\* JSON.parse(text): the whole text is one value, else it throws (ok = FALSE)
JSONParse(ts) ==
    LET r == ParseValue(ts) IN
    IF r.ok /\ r.rest = << >> THEN r ELSE ParseFail

\* JavaScript truthiness of a parsed value
Truthy(kind, val) ==
    CASE kind = "null"    -> FALSE
      [] kind = "boolean" -> val
      [] kind = "number"  -> val.n # 0
      [] kind = "string"  -> val # ""
      [] OTHER            -> TRUE

(***************************************************************************)
(* Browser storage: key -> item; getItem of a missing key is null.         *)
(***************************************************************************)
Keys == { "cards", "position" }
NoItem == [present |-> FALSE, s |-> << >>]
Item(ts) == [present |-> TRUE, s |-> ts]
EmptyStorage == [key \in Keys |-> NoItem]

\* strings that are not valid JSON
InvalidTexts == { << Punct("["), Punct("{") >>, << StrTok("cards"), Punct(",") >>,
                  << Punct("oops") >>, << Punct("["), NumTok(Int2Rat(1)), Punct(",") , Punct("]") >> }
\* valid JSON of a falsy value
FalsyTexts == { << Punct("null") >>, << NumTok(Int2Rat(0)) >>, << Punct("false") >>,
                << StrTok("") >> }
\* what a key may hold before the application first runs: nothing, the empty
\* string, or text that no run of the application wrote
UnparsableItems == { NoItem, Item(<< >>) } \cup { Item(ts) : ts \in InvalidTexts }
FalsyItems == { Item(ts) : ts \in FalsyTexts }

Undefined == [def |-> FALSE]
Defined(kind, val) == [def |-> TRUE, kind |-> kind, val |-> val]

\* created-persisted-store.ts lines 4-12
getPersistedValue(storage, key) ==
    LET persistedValue == storage[key] IN
    IF ~persistedValue.present \/ persistedValue.s = << >> THEN Undefined
    ELSE LET r == JSONParse(persistedValue.s) IN
         IF r.ok THEN Defined(r.kind, r.val) ELSE Undefined

\* created-persisted-store.ts line 18
StorageOf(type, session, local) == IF type = "session" THEN session ELSE local

\* a variant that never uses the stored value
InitialValue_AlwaysDefault(type, key, object, session, local) == object

\* created-persisted-store.ts line 19: getPersistedValue(storage, key) || object
InitialValue(type, key, object, session, local) ==
    LET v == getPersistedValue(StorageOf(type, session, local), key) IN
    IF v.def /\ Truthy(v.kind, v.val) THEN v.val ELSE object

\* part_001 lines 136-144; JSON.parse's value is returned as it is
getInitialCards(storage) ==
    LET storageCards == storage["cards"] IN
    IF ~storageCards.present \/ storageCards.s = << >> THEN << >>
    ELSE LET r == JSONParse(storageCards.s) IN
         IF r.ok THEN r.val ELSE << >>


\* a variant of the effect that writes to localStorage
PersistEffect_ToLocal(type, key, text, session, local) ==
    [session |-> session, local |-> [local EXCEPT ![key] = Item(text)]]

\* created-persisted-store.ts lines 23-30: the effect's write; the two
\* storages after it
PersistEffect(type, key, text, session, local) ==
    [session |-> [session EXCEPT ![key] = Item(text)], local |-> local]

(***************************************************************************)
(* The application state.                                                  *)
(***************************************************************************)
VARIABLES
    variant,            \* "zoom": the App of part_000; "plain": the App of part_001
    mounted,            \* the App component has been created
    sessionStorage,     \* window.sessionStorage
    localStorage,       \* window.localStorage
    cards,              \* the cards store
    canvasPosition,     \* the canvasPosition store (zoom)
    mouseDownPosition,  \* App's mouseDownPosition (zoom)
    bgListening,        \* mousemove/mouseup listeners are on backgroundRef
    cardUi,             \* per Card component: zIndex, prevMousePosition, listeners
    storeType,          \* options.type of the store under test (StoreSpec)
    \* history of the run, read by the properties only
    steps, lastOp, lastCard, lastWheel, wrote, loaded, drag, pan, lastSet

vars == << variant, mounted, sessionStorage, localStorage, cards, canvasPosition,
           mouseDownPosition, bgListening, cardUi, storeType,
           steps, lastOp, lastCard, lastWheel, wrote, loaded, drag, pan, lastSet >>

Null == [some |-> FALSE, x |-> 0, y |-> 0]
Some(e) == [some |-> TRUE, x |-> e[1], y |-> e[2]]

XY(x, y) == [x |-> x, y |-> y]
\* part_000 lines 33-37
DefaultCanvas == [x |-> Int2Rat(0), y |-> Int2Rat(0), scale |-> Int2Rat(1)]
\* part_000 lines 176-181, part_001 lines 66-68
NewCardUi == [zIndex |-> 1, prevMousePosition |-> Null, listening |-> FALSE]

DragNone == [down |-> FALSE, m0 |-> <<0, 0>>, mk |-> <<0, 0>>, moves |-> 0,
             p0 |-> XY(Int2Rat(0), Int2Rat(0)), s0 |-> Int2Rat(1), ok |-> FALSE]
PanNone == [down |-> FALSE, m0 |-> <<0, 0>>, mk |-> <<0, 0>>, moves |-> 0,
            p0 |-> XY(Int2Rat(0), Int2Rat(0)), ok |-> FALSE]
NoLoad == [cards |-> NoItem, position |-> NoItem]
NoWheel == [clientX |-> 0, clientY |-> 0, deltaY |-> 0]
NoSet == [has |-> FALSE, value |-> DefaultCanvas]
NothingSet == [session |-> NoSet, local |-> NoSet]

History(op, card, wheel, written) ==
    /\ steps' = steps + 1
    /\ lastOp' = op
    /\ lastCard' = card
    /\ lastWheel' = wheel
    /\ wrote' = written
    /\ loaded' = NoLoad
    /\ UNCHANGED lastSet

Init ==
    /\ variant \in { "zoom", "plain" }
    /\ mounted = FALSE
    /\ sessionStorage \in
         { [cards |-> c, position |-> p] :
             c \in UnparsableItems \cup (IF variant = "zoom" THEN FalsyItems ELSE {}),
             p \in IF variant = "zoom" THEN UnparsableItems \cup FalsyItems ELSE { NoItem } }
    /\ localStorage = EmptyStorage
    /\ cards = << >>
    /\ canvasPosition = DefaultCanvas
    /\ mouseDownPosition = Null
    /\ bgListening = FALSE
    /\ cardUi = << >>
    /\ storeType = "session"
    /\ steps = 0
    /\ lastOp = "init"
    /\ lastCard = 0
    /\ wrote = {}
    /\ loaded = NoLoad
    /\ drag = << >>
    /\ pan = PanNone
    /\ lastSet = NothingSet
    /\ lastWheel = NoWheel

(***************************************************************************)
(* Creating the App: part_000 lines 27-39 with createPersistentStore       *)
(* (created-persisted-store.ts lines 14-33), part_001 lines 22-25, 42-45.  *)
(* The stores are seeded from storage, the Card components are created,    *)
(* and the persisting effects run once.                                    *)
(***************************************************************************)
SeedCards(v, session, local) ==
    IF v = "zoom" THEN InitialValue("session", "cards", << >>, session, local)
    ELSE getInitialCards(session)

SeedCanvas(v, session, local) ==
    IF v = "zoom" THEN InitialValue("session", "position", DefaultCanvas, session, local)
    ELSE DefaultCanvas

\* the storages after the effect of the cards store has run
PersistCards(v, cs, session, local) ==
    IF v = "zoom" THEN PersistEffect("session", "cards", StringifyCards(cs), session, local)
    ELSE [session |-> [session EXCEPT !["cards"] = Item(StringifyCards(cs))], local |-> local]

\* the storages after the effect of the canvasPosition store has run
PersistCanvas(v, pos, session, local) ==
    IF v = "zoom" THEN PersistEffect("session", "position", StringifyCanvas(pos), session, local)
    ELSE [session |-> session, local |-> local]

CreateApp(op) ==
    LET cs  == SeedCards(variant, sessionStorage, localStorage)
        pos == SeedCanvas(variant, sessionStorage, localStorage)
        st1 == PersistCards(variant, cs, sessionStorage, localStorage)
        st2 == PersistCanvas(variant, pos, st1.session, st1.local)
    IN  /\ mounted' = TRUE
        /\ cards' = cs
        /\ canvasPosition' = pos
        /\ sessionStorage' = st2.session
        /\ localStorage' = st2.local
        /\ mouseDownPosition' = Null
        /\ bgListening' = FALSE
        /\ cardUi' = [i \in 1..Len(cs) |-> NewCardUi]
        /\ drag' = [i \in 1..Len(cs) |-> DragNone]
        /\ pan' = PanNone
        /\ steps' = IF op = "mount" THEN steps ELSE steps + 1
        /\ lastOp' = op
        /\ lastCard' = 0
        /\ wrote' = IF variant = "zoom" THEN { "cards", "position" } ELSE { "cards" }
        /\ loaded' = [cards |-> sessionStorage["cards"], position |-> sessionStorage["position"]]
        /\ lastWheel' = NoWheel
        /\ UNCHANGED << variant, storeType, lastSet >>

\* the page is opened for the first time in this session
Mount ==
    /\ ~mounted
    /\ CreateApp("mount")

\* the page is reloaded: everything but the storages is lost
Reload ==
    /\ mounted
    /\ steps < MaxSteps
    /\ CreateApp("reload")


(***************************************************************************)
(* The operations of the App.                                              *)
(***************************************************************************)
\* part_000 lines 43-49, part_001 lines 27-33: the card list after addCard
AddedCard(cs) ==
    Append(cs, [id |-> generateId(cs), text |-> "New Card",
                position |-> XY(Int2Rat(100), Int2Rat(100))])

\* a variant of updateCard without the filter on the id
updateCard_All(cs, id, patch) ==
    [i \in 1..Len(cs) |-> patch @@ cs[i]]

\* part_000 lines 51-56, part_001 lines 35-40: the card list after
\* updateCard(id, patch); Object.assign copies the fields of the patch
updateCard(cs, id, patch) ==
    [i \in 1..Len(cs) |-> IF cs[i].id = id THEN patch @@ cs[i] ELSE cs[i]]

\* whether setCards of updateCard notifies the effect: a position object is a
\* new object each time, a text notifies when it differs
UpdateNotifies(cs, id, patch) ==
    \E i \in 1..Len(cs) :
        /\ cs[i].id = id
        /\ \/ "position" \in DOMAIN patch
           \/ "text" \in DOMAIN patch /\ patch.text # cs[i].text

\* a variant of the new scale without the clamp
NewScale_Unclamped(currentScale, deltaY) ==
    IF deltaY < 0
    THEN RAdd(currentScale, RMul(Int2Rat(Abs(deltaY)), SCALING_FACTOR))
    ELSE RSub(currentScale, RMul(Int2Rat(Abs(deltaY)), SCALING_FACTOR))

\* part_000 lines 61-69: the new scale of handleWheel
NewScale(currentScale, deltaY) ==
    LET direction == IF deltaY < 0 THEN "up" ELSE "down"
        absoluteDiff == RMul(Int2Rat(Abs(deltaY)), SCALING_FACTOR)
        unclampedNewScale ==
            IF direction = "up" THEN RAdd(currentScale, absoluteDiff)
            ELSE RSub(currentScale, absoluteDiff)
    IN  clamp(unclampedNewScale, MIN_SCALE, MAX_SCALE)

\* a variant of the new offset that does not divide by the current scale
NewOffset_NoDivide(client, offset, currentScale, newScale) ==
    RSub(Int2Rat(client), RMul(RSub(Int2Rat(client), offset), newScale))

\* part_000 lines 71-78: the new offset of handleWheel along one axis
NewOffset(client, offset, currentScale, newScale) ==
    LET distance == RSub(Int2Rat(client), offset)
        scaledDistance == RMul(RDiv(distance, currentScale), newScale)
    IN  RSub(Int2Rat(client), scaledDistance)

\* part_000 lines 58-87: canvasPosition after handleWheel
WheelResult(pos, clientX, clientY, deltaY) ==
    LET newScale == NewScale(pos.scale, deltaY) IN
    [scale |-> newScale,
     x |-> NewOffset(clientX, pos.x, pos.scale, newScale),
     y |-> NewOffset(clientY, pos.y, pos.scale, newScale)]

\* a variant of the pan with the sign of the delta flipped
PanResult_Flipped(pos, down, clientX, clientY) ==
    [pos EXCEPT !.x = RSub(pos.x, Int2Rat(clientX - down.x)),
                !.y = RSub(pos.y, Int2Rat(clientY - down.y))]

\* part_000 lines 105-115: canvasPosition after handleBackgroundMouseMove
PanResult(pos, down, clientX, clientY) ==
    LET deltaX == down.x - clientX
        deltaY == down.y - clientY
    IN  [pos EXCEPT !.x = RSub(pos.x, Int2Rat(deltaX)),
                    !.y = RSub(pos.y, Int2Rat(deltaY))]

\* a variant of the card move that ignores the scale
MovedPosition_NoScale(position, prevMouse, clientX, clientY, scale) ==
    XY(RAdd(position.x, Int2Rat(clientX - prevMouse.x)),
       RAdd(position.y, Int2Rat(clientY - prevMouse.y)))

\* part_000 lines 202-215: the position handed to updateCard by the Card's
\* handleMouseMove
MovedPosition(position, prevMouse, clientX, clientY, scale) ==
    LET deltaX == clientX - prevMouse.x
        deltaY == clientY - prevMouse.y
    IN  XY(RAdd(position.x, RDiv(Int2Rat(deltaX), scale)),
           RAdd(position.y, RDiv(Int2Rat(deltaY), scale)))

\* part_001 lines 86-97: the same in the App without zoom
MovedPositionPlain(position, prevMouse, clientX, clientY) ==
    LET deltaX == clientX - prevMouse.x
        deltaY == clientY - prevMouse.y
    IN  XY(RAdd(position.x, Int2Rat(deltaX)), RAdd(position.y, Int2Rat(deltaY)))

\* a variant in which the effect tracks only the length of the list
SetCards_Shallow(cs, notified) ==
    LET st == PersistCards(variant, cs, sessionStorage, localStorage) IN
    /\ cards' = cs
    /\ sessionStorage' = IF Len(cs) # Len(cards) THEN st.session ELSE sessionStorage
    /\ localStorage' = IF Len(cs) # Len(cards) THEN st.local ELSE localStorage

\* the cards store is set to cs; its effect runs when the store notified
SetCards(cs, notified) ==
    LET st == PersistCards(variant, cs, sessionStorage, localStorage) IN
    /\ cards' = cs
    /\ sessionStorage' = IF notified THEN st.session ELSE sessionStorage
    /\ localStorage' = IF notified THEN st.local ELSE localStorage

\* the canvasPosition store is set to pos; its effect runs when a field changed
SetCanvasPosition(pos) ==
    LET st == PersistCanvas(variant, pos, sessionStorage, localStorage)
        notified == pos # canvasPosition
    IN  /\ canvasPosition' = pos
        /\ sessionStorage' = IF notified THEN st.session ELSE sessionStorage
        /\ localStorage' = IF notified THEN st.local ELSE localStorage

\* the click on "Add card"
AddCard ==
    /\ mounted
    /\ steps < MaxSteps
    /\ Len(cards) < MaxCards
    /\ SetCards(AddedCard(cards), TRUE)
    /\ cardUi' = Append(cardUi, NewCardUi)
    /\ drag' = Append(drag, DragNone)
    /\ History("addCard", Len(cards) + 1, NoWheel, { "cards" })
    /\ UNCHANGED << variant, mounted, canvasPosition, mouseDownPosition, bgListening,
                    storeType, pan >>

\* a wheel event on the document (part_000 lines 58-87, 125)
HandleWheel(clientX, clientY, deltaY) ==
    LET pos == WheelResult(canvasPosition, clientX, clientY, deltaY) IN
    /\ mounted
    /\ variant = "zoom"
    /\ steps < MaxSteps
    /\ SetCanvasPosition(pos)
    /\ pan' = IF pan.down THEN [pan EXCEPT !.ok = FALSE] ELSE pan
    /\ drag' = [i \in 1..Len(drag) |->
                  IF drag[i].down
                  THEN [drag[i] EXCEPT !.ok = @ /\ pos.scale = drag[i].s0]
                  ELSE drag[i]]
    /\ History("wheel", 0, [clientX |-> clientX, clientY |-> clientY, deltaY |-> deltaY],
               IF pos # canvasPosition THEN { "position" } ELSE {})
    /\ UNCHANGED << variant, mounted, cards, mouseDownPosition, bgListening, cardUi,
                    storeType >>

\* a mousedown event on the background (part_000 lines 91-98, 126)
HandleBackgroundMouseDown(clientX, clientY) ==
    /\ mounted
    /\ variant = "zoom"
    /\ steps < MaxSteps
    /\ mouseDownPosition' = Some(<< clientX, clientY >>)
    /\ bgListening' = TRUE
    /\ pan' = [down |-> TRUE, m0 |-> << clientX, clientY >>, mk |-> << clientX, clientY >>,
               moves |-> 0, p0 |-> XY(canvasPosition.x, canvasPosition.y), ok |-> TRUE]
    /\ History("backgroundMouseDown", 0, NoWheel, {})
    /\ UNCHANGED << variant, mounted, sessionStorage, localStorage, cards,
                    canvasPosition, cardUi, storeType, drag >>

\* a mousemove event on the background; handleBackgroundMouseMove
\* (part_000 lines 100-116) runs when the listener is on
HandleBackgroundMouseMove(clientX, clientY) ==
    /\ mounted
    /\ variant = "zoom"
    /\ steps < MaxSteps
    /\ IF bgListening /\ mouseDownPosition.some
       THEN /\ mouseDownPosition' = Some(<< clientX, clientY >>)
            /\ SetCanvasPosition(PanResult(canvasPosition, mouseDownPosition, clientX, clientY))
            /\ wrote' = IF PanResult(canvasPosition, mouseDownPosition, clientX, clientY)
                             # canvasPosition
                        THEN { "position" } ELSE {}
       ELSE /\ UNCHANGED << mouseDownPosition, canvasPosition, sessionStorage, localStorage >>
            /\ wrote' = {}
    /\ pan' = IF pan.down
              THEN [pan EXCEPT !.mk = << clientX, clientY >>, !.moves = @ + 1]
              ELSE pan
    /\ steps' = steps + 1
    /\ lastOp' = "backgroundMouseMove"
    /\ lastCard' = 0
    /\ lastWheel' = NoWheel
    /\ loaded' = NoLoad
    /\ UNCHANGED lastSet
    /\ UNCHANGED << variant, mounted, cards, bgListening, cardUi, storeType, drag >>

\* a mouseup event on the background; handleBackgroundMouseUp
\* (part_000 lines 118-122) runs when the listener is on
HandleBackgroundMouseUp ==
    /\ mounted
    /\ variant = "zoom"
    /\ steps < MaxSteps
    /\ IF bgListening
       THEN /\ mouseDownPosition' = Null
            /\ bgListening' = FALSE
       ELSE UNCHANGED << mouseDownPosition, bgListening >>
    /\ pan' = PanNone
    /\ History("backgroundMouseUp", 0, NoWheel, {})
    /\ UNCHANGED << variant, mounted, sessionStorage, localStorage, cards,
                    canvasPosition, cardUi, storeType, drag >>


(***************************************************************************)
(* The operations of a Card component; i is the card's index in the list.  *)
(***************************************************************************)
\* a mousedown event on the card (part_000 lines 183-195, part_001 lines 70-79)
HandleMouseDown(i, clientX, clientY) ==
    /\ mounted
    /\ steps < MaxSteps
    /\ i \in 1..Len(cards)
    /\ cardUi' = [cardUi EXCEPT ![i] =
                    [zIndex |-> 2, listening |-> TRUE,
                     prevMousePosition |-> Some(<< clientX, clientY >>)]]
    /\ drag' = [drag EXCEPT ![i] =
                  [down |-> TRUE, m0 |-> << clientX, clientY >>,
                   mk |-> << clientX, clientY >>, moves |-> 0, p0 |-> cards[i].position,
                   s0 |-> canvasPosition.scale, ok |-> TRUE]]
    /\ History("cardMouseDown", i, NoWheel, {})
    /\ UNCHANGED << variant, mounted, sessionStorage, localStorage, cards,
                    canvasPosition, mouseDownPosition, bgListening, storeType, pan >>

\* the patch of the Card's handleMouseMove
MovePatch(i, clientX, clientY) ==
    [position |->
       IF variant = "zoom"
       THEN MovedPosition(cards[i].position, cardUi[i].prevMousePosition,
                          clientX, clientY, canvasPosition.scale)
       ELSE MovedPositionPlain(cards[i].position, cardUi[i].prevMousePosition,
                               clientX, clientY)]

\* a mousemove event on the card; handleMouseMove (part_000 lines 197-216,
\* part_001 lines 81-98) runs when the listener is on
HandleMouseMove(i, clientX, clientY) ==
    /\ mounted
    /\ steps < MaxSteps
    /\ i \in 1..Len(cards)
    /\ IF cardUi[i].listening /\ cardUi[i].prevMousePosition.some
       THEN /\ cardUi' = [cardUi EXCEPT ![i].prevMousePosition = Some(<< clientX, clientY >>)]
            /\ SetCards(updateCard(cards, cards[i].id, MovePatch(i, clientX, clientY)), TRUE)
            /\ wrote' = { "cards" }
       ELSE /\ UNCHANGED << cardUi, cards, sessionStorage, localStorage >>
            /\ wrote' = {}
    /\ drag' = IF drag[i].down
               THEN [drag EXCEPT ![i].mk = << clientX, clientY >>, ![i].moves = @ + 1]
               ELSE drag
    /\ steps' = steps + 1
    /\ lastOp' = "cardMouseMove"
    /\ lastCard' = i
    /\ lastWheel' = NoWheel
    /\ loaded' = NoLoad
    /\ UNCHANGED lastSet
    /\ UNCHANGED << variant, mounted, canvasPosition, mouseDownPosition, bgListening,
                    storeType, pan >>

\* a variant of handleMouseUp that does not reset prevMousePosition
HandleMouseUp_KeepsPrev(i) ==
    /\ mounted
    /\ steps < MaxSteps
    /\ i \in 1..Len(cards)
    /\ cardUi' = IF cardUi[i].listening
                 THEN [cardUi EXCEPT ![i].zIndex = 1, ![i].listening = FALSE]
                 ELSE cardUi
    /\ drag' = [drag EXCEPT ![i] = DragNone]
    /\ History("cardMouseUp", i, NoWheel, {})
    /\ UNCHANGED << variant, mounted, sessionStorage, localStorage, cards,
                    canvasPosition, mouseDownPosition, bgListening, storeType, pan >>

\* a mouseup event on the card; handleMouseUp (part_000 lines 218-223,
\* part_001 lines 100-105) runs when the listener is on
HandleMouseUp(i) ==
    /\ mounted
    /\ steps < MaxSteps
    /\ i \in 1..Len(cards)
    /\ cardUi' = IF cardUi[i].listening THEN [cardUi EXCEPT ![i] = NewCardUi] ELSE cardUi
    /\ drag' = [drag EXCEPT ![i] = DragNone]
    /\ History("cardMouseUp", i, NoWheel, {})
    /\ UNCHANGED << variant, mounted, sessionStorage, localStorage, cards,
                    canvasPosition, mouseDownPosition, bgListening, storeType, pan >>

\* an input event of the card's textarea (part_000 lines 239-243)
OnInput(i, value) ==
    /\ mounted
    /\ variant = "zoom"
    /\ steps < MaxSteps
    /\ i \in 1..Len(cards)
    /\ SetCards(updateCard(cards, cards[i].id, [text |-> value]),
                UpdateNotifies(cards, cards[i].id, [text |-> value]))
    /\ History("input", i, NoWheel, IF UpdateNotifies(cards, cards[i].id, [text |-> value])
                           THEN { "cards" } ELSE {})
    /\ UNCHANGED << variant, mounted, canvasPosition, mouseDownPosition, bgListening,
                    cardUi, storeType, drag, pan >>

Next ==
    \/ Mount
    \/ Reload
    \/ AddCard
    \/ \E e \in Points, deltaY \in WheelDeltas : HandleWheel(e[1], e[2], deltaY)
    \/ \E e \in Points : HandleBackgroundMouseDown(e[1], e[2])
    \/ \E e \in Points : HandleBackgroundMouseMove(e[1], e[2])
    \/ HandleBackgroundMouseUp
    \/ \E i \in 1..MaxCards, e \in Points : HandleMouseDown(i, e[1], e[2])
    \/ \E i \in 1..MaxCards, e \in Points : HandleMouseMove(i, e[1], e[2])
    \/ \E i \in 1..MaxCards : HandleMouseUp(i)
    \/ \E i \in 1..MaxCards, value \in Texts : OnInput(i, value)

Spec == Init /\ [][Next]_vars

(***************************************************************************)
(* createPersistentStore on its own: stores of either type are created on  *)
(* the key "position" and set, one after the other.                        *)
(***************************************************************************)
StoreValues ==
    { [x |-> Int2Rat(e[1]), y |-> Int2Rat(e[2]), scale |-> sc] :
        e \in Points, sc \in { MIN_SCALE, Int2Rat(1), MAX_SCALE } }

StoreInit ==
    /\ variant = "zoom"
    /\ mounted = FALSE
    /\ sessionStorage \in { [cards |-> NoItem, position |-> p] : p \in UnparsableItems }
    /\ localStorage \in { [cards |-> NoItem, position |-> p] : p \in UnparsableItems }
    /\ cards = << >>
    /\ canvasPosition = DefaultCanvas
    /\ mouseDownPosition = Null
    /\ bgListening = FALSE
    /\ cardUi = << >>
    /\ storeType = "session"
    /\ steps = 0
    /\ lastOp = "init"
    /\ lastCard = 0
    /\ lastWheel = NoWheel
    /\ wrote = {}
    /\ loaded = NoLoad
    /\ drag = << >>
    /\ pan = PanNone
    /\ lastSet = NothingSet

StoreFrame ==
    UNCHANGED << variant, cards, mouseDownPosition, bgListening, cardUi, lastCard,
                 lastWheel, loaded, drag, pan >>

\* created-persisted-store.ts lines 14-33: createPersistentStore(DefaultCanvas,
\* {key: "position", type}); the store before it, if any, is dropped
CreatePersistentStore(type) ==
    LET initialValue == InitialValue(type, "position", DefaultCanvas,
                                     sessionStorage, localStorage)
        st == PersistEffect(type, "position", StringifyCanvas(initialValue),
                            sessionStorage, localStorage)
    IN  /\ steps < MaxSteps
        /\ mounted' = TRUE
        /\ storeType' = type
        /\ canvasPosition' = initialValue
        /\ sessionStorage' = st.session
        /\ localStorage' = st.local
        /\ steps' = steps + 1
        /\ lastOp' = "create"
        /\ wrote' = { "position" }
        /\ UNCHANGED lastSet
        /\ StoreFrame

\* the setter of the store, then the effect (lines 23-30)
SetStore(value) ==
    LET st == PersistEffect(storeType, "position", StringifyCanvas(value),
                            sessionStorage, localStorage)
    IN  /\ mounted
        /\ steps < MaxSteps
        /\ value # canvasPosition
        /\ canvasPosition' = value
        /\ sessionStorage' = st.session
        /\ localStorage' = st.local
        /\ lastSet' = [lastSet EXCEPT ![storeType] = [has |-> TRUE, value |-> value]]
        /\ steps' = steps + 1
        /\ lastOp' = "set"
        /\ wrote' = { "position" }
        /\ UNCHANGED << mounted, storeType >>
        /\ StoreFrame

StoreNext ==
    \/ \E type \in { "session", "local" } : CreatePersistentStore(type)
    \/ \E value \in StoreValues : SetStore(value)

StoreSpec == StoreInit /\ [][StoreNext]_vars


(***************************************************************************)
(* Properties.                                                             *)
(***************************************************************************)
CardsItem == sessionStorage["cards"]
PositionItem == sessionStorage["position"]
Hundred == XY(Int2Rat(100), Int2Rat(100))
IsStep == steps' # steps

\* C1: in the App, after any sequence of operations the string stored in
\* sessionStorage under each key is the JSON serialization of the current value
\* of the corresponding store, and creating the stores again from storage
\* yields the same card list and the same canvas x, y and scale.
C1_StorageMirrorsStores ==
    mounted =>
        /\ CardsItem = Item(StringifyCards(cards))
        /\ variant = "zoom" => PositionItem = Item(StringifyCanvas(canvasPosition))
        /\ SeedCards(variant, sessionStorage, localStorage) = cards
        /\ SeedCanvas(variant, sessionStorage, localStorage) = canvasPosition

C1_Witness ==
    /\ mounted
    /\ variant = "zoom"
    /\ Len(cards) >= 1
    /\ cards[1].position # Hundred
    /\ canvasPosition.scale # Int2Rat(1)
    /\ canvasPosition.x # Int2Rat(0)

\* C2: a value set in a store created with type t and key k is the value
\* seeded into the next store created with type t and key k, for t = "session"
\* and for t = "local".
C2_SeededFromOwnStorage ==
    (lastOp = "create" /\ lastSet[storeType].has) =>
        canvasPosition = lastSet[storeType].value

\* C3 as stated: persistence is debounced, so a state change of a burst (a
\* mousemove of a drag) does not write to storage in the same update.
C3_Debounced ==
    [][(IsStep /\ lastOp' = "cardMouseMove" /\ cards' # cards)
         => sessionStorage' = sessionStorage]_vars

\* C3 as amended: persistence is not debounced; every change of a store is
\* written to sessionStorage by the effect in the same update, one write per
\* change, and the string written is the serialization of the new state.
C3_WriteThrough ==
    [][IsStep =>
         /\ cards' # cards =>
              /\ "cards" \in wrote'
              /\ sessionStorage'["cards"] = Item(StringifyCards(cards'))
              /\ sessionStorage'["cards"] # sessionStorage["cards"]
         /\ canvasPosition' # canvasPosition =>
              /\ "position" \in wrote'
              /\ sessionStorage'["position"] = Item(StringifyCanvas(canvasPosition'))
              /\ sessionStorage'["position"] # sessionStorage["position"]]_vars

C3_Witness ==
    /\ lastOp = "cardMouseMove"
    /\ "cards" \in wrote
    /\ drag[lastCard].down
    /\ drag[lastCard].moves >= 2
    /\ drag[lastCard].mk # drag[lastCard].m0
    /\ cards[lastCard].position # drag[lastCard].p0
    /\ CardsItem = Item(StringifyCards(cards))

\* C4: a wheel event at (clientX, clientY) keeps the canvas point under the
\* cursor fixed: (clientX - x') / s' = (clientX - x) / s, the same for y, also
\* when the new scale is clamped; with deltaY = 0 x, y and scale are unchanged.
C4_ZoomToCursor ==
    [][(IsStep /\ lastOp' = "wheel") =>
         LET e == lastWheel'
             p == canvasPosition
             q == canvasPosition'
         IN  /\ RLess(Int2Rat(0), p.scale)
             /\ RDiv(RSub(Int2Rat(e.clientX), q.x), q.scale)
                  = RDiv(RSub(Int2Rat(e.clientX), p.x), p.scale)
             /\ RDiv(RSub(Int2Rat(e.clientY), q.y), q.scale)
                  = RDiv(RSub(Int2Rat(e.clientY), p.y), p.scale)
             /\ e.deltaY = 0 => q = p]_vars

C4_Witness ==
    /\ lastOp = "wheel"
    /\ canvasPosition.scale = MIN_SCALE
    /\ lastWheel.clientX # 0
    /\ canvasPosition.x # Int2Rat(0)
    /\ canvasPosition.y # Int2Rat(0)

\* the position a drag from m0 to mk must have produced
DragTarget(d) ==
    IF variant = "zoom"
    THEN XY(RAdd(d.p0.x, RDiv(Int2Rat(d.mk[1] - d.m0[1]), d.s0)),
            RAdd(d.p0.y, RDiv(Int2Rat(d.mk[2] - d.m0[2]), d.s0)))
    ELSE XY(RAdd(d.p0.x, Int2Rat(d.mk[1] - d.m0[1])),
            RAdd(d.p0.y, Int2Rat(d.mk[2] - d.m0[2])))

\* C5: during a card drag with the scale s constant, the card's position after
\* the last mousemove is its position at mousedown plus (mk - m0) / s (plus
\* (mk - m0) without zoom), whatever the intermediate mouse positions; the
\* drag changes neither the id nor the text of a card.
C5_DragDelta ==
    /\ [](\A i \in 1..Len(cards) :
            (drag[i].down /\ drag[i].ok) => cards[i].position = DragTarget(drag[i]))
    /\ [][(IsStep /\ lastOp' = "cardMouseMove") =>
            /\ Len(cards') = Len(cards)
            /\ \A j \in 1..Len(cards) :
                 cards'[j].id = cards[j].id /\ cards'[j].text = cards[j].text]_vars

C5_Witness ==
    /\ lastOp = "cardMouseMove"
    /\ variant = "zoom"
    /\ drag[lastCard].down
    /\ drag[lastCard].ok
    /\ drag[lastCard].s0 # Int2Rat(1)
    /\ drag[lastCard].moves >= 2
    /\ drag[lastCard].mk # drag[lastCard].m0
    /\ cards[lastCard].position # Hundred

\* C6: during a background drag the canvas offset after the last mousemove is
\* the offset at mousedown plus (mk - m0), and a mousemove of the drag leaves
\* the scale and every card unchanged.
C6_Panning ==
    /\ []((pan.down /\ pan.ok) =>
            /\ canvasPosition.x = RAdd(pan.p0.x, Int2Rat(pan.mk[1] - pan.m0[1]))
            /\ canvasPosition.y = RAdd(pan.p0.y, Int2Rat(pan.mk[2] - pan.m0[2])))
    /\ [][(IsStep /\ lastOp' = "backgroundMouseMove") =>
            /\ canvasPosition'.scale = canvasPosition.scale
            /\ cards' = cards]_vars

C6_Witness ==
    /\ lastOp = "backgroundMouseMove"
    /\ pan.down
    /\ pan.ok
    /\ pan.moves >= 2
    /\ pan.mk # pan.m0
    /\ canvasPosition.scale # Int2Rat(1)
    /\ XY(canvasPosition.x, canvasPosition.y) # pan.p0

\* C7: the canvas scale is always within [MIN_SCALE, MAX_SCALE] = [0.25, 5],
\* so it is never zero or negative where it is a divisor.
C7_ScaleBounds ==
    /\ RLeq(MIN_SCALE, canvasPosition.scale)
    /\ RLeq(canvasPosition.scale, MAX_SCALE)
    /\ canvasPosition.scale.n > 0

C7_Witness ==
    /\ lastOp = "wheel"
    /\ lastWheel.deltaY < 0
    /\ canvasPosition.scale = MAX_SCALE
    /\ steps >= 2

\* the frame of updateCard(id, patch) from card list cs to card list ds
UpdateFrame(cs, ds, id, patch) ==
    /\ Len(ds) = Len(cs)
    /\ \A j \in 1..Len(cs) :
         /\ ds[j].id = cs[j].id
         /\ cs[j].id # id => ds[j] = cs[j]
         /\ "position" \notin DOMAIN patch => ds[j].position = cs[j].position
         /\ "text" \notin DOMAIN patch => ds[j].text = cs[j].text
         /\ cs[j].id = id =>
              \A f \in DOMAIN patch : ds[j][f] = patch[f]

SamplePatches ==
    { [text |-> "hi"], [position |-> XY(Int2Rat(1), Rat(1, 2))],
      [text |-> "", position |-> XY(Int2Rat(0), Int2Rat(0))] }

\* C8: updateCard(id, patch) changes only the patched fields of the cards with
\* that id, keeps every id, the number and the order of the cards, and changes
\* nothing when no card has the id; the list changes length only by addCard,
\* which appends one card "New Card" at (100, 100) and keeps the others.
C8_UpdateFrame ==
    /\ [](\A patch \in SamplePatches :
            /\ updateCard(cards, "no such id", patch) = cards
            /\ \A j \in 1..Len(cards) :
                 UpdateFrame(cards, updateCard(cards, cards[j].id, patch),
                             cards[j].id, patch))
    /\ [][IsStep =>
            /\ lastOp' = "cardMouseMove" =>
                 /\ \A j \in 1..Len(cards) : cards'[j].text = cards[j].text
                 /\ UpdateFrame(cards, cards', cards[lastCard'].id,
                                [position |-> cards'[lastCard'].position])
            /\ lastOp' = "input" =>
                 /\ \A j \in 1..Len(cards) : cards'[j].position = cards[j].position
                 /\ UpdateFrame(cards, cards', cards[lastCard'].id,
                                [text |-> cards'[lastCard'].text])
            /\ lastOp' = "addCard" =>
                 /\ Len(cards') = Len(cards) + 1
                 /\ SubSeq(cards', 1, Len(cards)) = cards
                 /\ cards'[Len(cards')].text = "New Card"
                 /\ cards'[Len(cards')].position = Hundred
            /\ lastOp' # "addCard" => Len(cards') = Len(cards)]_vars

C8_Witness ==
    /\ lastOp = "cardMouseMove"
    /\ Len(cards) = 2
    /\ lastCard = 2
    /\ cards[2].position # Hundred
    /\ cards[1].position = Hundred
    /\ cards[1].id # cards[2].id

\* C9: when the key is absent or holds the empty string or text that is not
\* valid JSON, getPersistedValue returns undefined and the store is seeded with
\* the caller's default (getInitialCards: the empty list); when it holds valid
\* JSON of a truthy value, the parsed value seeds the store.
C9_LoadNeverFails ==
    (lastOp \in { "mount", "reload" }) =>
        /\ \A key \in Keys :
             loaded[key] \in UnparsableItems => ~getPersistedValue(loaded, key).def
        /\ loaded["cards"] \in UnparsableItems => cards = << >>
        /\ (variant = "zoom" /\ loaded["position"] \in UnparsableItems)
             => canvasPosition = DefaultCanvas
        /\ loaded["cards"] \notin UnparsableItems \cup FalsyItems =>
             /\ JSONParse(loaded["cards"].s).ok
             /\ cards = JSONParse(loaded["cards"].s).val
             /\ StringifyCards(cards) = loaded["cards"].s
        /\ (variant = "zoom" /\ loaded["position"] \notin UnparsableItems \cup FalsyItems) =>
             /\ JSONParse(loaded["position"].s).ok
             /\ canvasPosition = JSONParse(loaded["position"].s).val
             /\ StringifyCanvas(canvasPosition) = loaded["position"].s

C9_Witness ==
    /\ lastOp = "reload"
    /\ variant = "zoom"
    /\ Len(cards) = 1
    /\ cards[1].text = "hi"
    /\ canvasPosition # DefaultCanvas
    /\ loaded["position"] \notin UnparsableItems \cup FalsyItems

\* C10: a mousemove changes a card's position only between a mousedown on that
\* card and the next mouseup on it, and changes the canvas offset only between
\* a background mousedown and the next background mouseup; a card's zIndex is 2
\* exactly when its prevMousePosition is non-null, and 1 otherwise.
C10_DragSession ==
    /\ [](\A i \in 1..Len(cardUi) :
            /\ cardUi[i].zIndex = (IF cardUi[i].prevMousePosition.some THEN 2 ELSE 1)
            /\ cardUi[i].prevMousePosition.some <=> drag[i].down)
    /\ []((mouseDownPosition.some <=> pan.down) /\ (bgListening <=> pan.down))
    /\ [][IsStep =>
            /\ \A j \in 1..Len(cards) :
                 (lastOp' \in { "cardMouseMove", "cardMouseDown", "cardMouseUp" }
                    /\ cards'[j].position # cards[j].position)
                   => (lastOp' = "cardMouseMove" /\ lastCard' = j /\ drag[j].down)
            /\ (lastOp' \in { "backgroundMouseMove", "backgroundMouseDown",
                              "backgroundMouseUp" }
                  /\ canvasPosition' # canvasPosition)
                 => (lastOp' = "backgroundMouseMove" /\ pan.down)]_vars

C10_Witness ==
    /\ lastOp = "cardMouseMove"
    /\ ~drag[lastCard].down
    /\ cardUi[lastCard].zIndex = 1
    /\ cards[lastCard].position # Hundred

=============================================================================
